---- MODULE Spec2Model ----
(***************************************************************************)
(* Model of the Whisper evaluation harness (src/evaluate.py): the text     *)
(* normaliser, the metric computation, the batch runner run_evaluation and *)
(* the reporter save_results.                                              *)
(*                                                                         *)
(* Texts are sequences of one-character strings.  Error rates are exact    *)
(* fractions [num, den] instead of floats.                                 *)
(***************************************************************************)
EXTENDS Naturals, Integers, Sequences, FiniteSets, TLC

VARIABLES
    \* ---- text specification (normalize_text / calculate_metrics) ----
    text,            \* the raw input string
    phase,           \* "input", "normalized", "renormalized", "measured"
    normalized,      \* normalize_text(text), once computed
    renormalized,    \* normalize_text(normalized), once computed
    hypothesis,      \* the hypothesis handed to calculate_metrics
    measured,        \* outcome of calculate_metrics(text, hypothesis)
    \* ---- batch specification (run_evaluation / save_results) ----
    FIREWORKS_API_KEY, \* os.environ.get("FIREWORKS_API_KEY") after load_dotenv()
    loads,           \* the files opened for reading, in order: metadata.jsonl by
                     \* load_metadata, a sample file by load_ground_truth
    records,         \* load_metadata(): the lines of metadata.jsonl, in file order
    pc,              \* position in run_evaluation / save_results
    i,               \* enumerate index of the record being processed (0: none yet)
    ground_truths,   \* the ground-truth cache: sample_file -> text
    reference,       \* local: ground truth of the current record
    transcription,   \* local: transcription of the current record
    results,         \* the results list
    outcome,         \* per record: PENDING, TRANSCRIBING, SKIPPED or SCORED
    requests,        \* ids of the records a transcription request was sent for
    responses,       \* per record: what the transcription request came back with
    caught,          \* the errors the loop's except clause caught, in order
    escaped,         \* the exception that left run_evaluation, if any
    files,           \* the files save_results has written
    printed,         \* the summary save_results has printed, if any
    analysed,        \* the outcomes of the analysis scripts' record processing so far
    \* ---- recorder specification (AudioRecorder) ----
    is_recording,            \* self.is_recording
    is_paused,               \* self.is_paused
    has_unsaved_recording,   \* self.has_unsaved_recording
    audio_data,              \* self.audio_data: the buffers appended, in order
    stream,                  \* self.stream: the InputStream referred to, or NoStream
    streams,                 \* the input streams that are started and not stopped
    in_callback,             \* the streams whose callback is between its check and its append
    sessions,                \* the number of start_recording calls that got to open a stream
    record_btn_enabled,      \* record_btn.isEnabled()
    pause_btn_visible,       \* pause_btn.isVisible()
    save_btn_visible,        \* save_btn.isVisible()
    discard_btn_visible,     \* discard_btn.isVisible()
    selectors_enabled,       \* sample_combo.isEnabled() and mic_combo.isEnabled()
    started_sample,          \* the sample that was selected when start_recording last ran
    last_handler,            \* what the button handler that ran last did
    sample_path,             \* sample_combo.currentData()
    device_idx,              \* mic_combo.currentData()
    metadata_jsonl,          \* dataset/metadata.jsonl: its lines, in order
    wav_files,               \* dataset/audio/: path -> the audio written there
    saves                    \* the save_recording calls so far: the line and audio of each

textVars == <<text, phase, normalized, renormalized, hypothesis, measured>>

batchVars == <<FIREWORKS_API_KEY, analysed, loads, records, pc, i, ground_truths, reference, transcription, results,
               outcome, requests, responses, caught, escaped, files, printed>>

recorderVars == <<is_recording, is_paused, has_unsaved_recording, audio_data,
                  stream, streams, in_callback, sessions, record_btn_enabled,
                  pause_btn_visible, save_btn_visible, discard_btn_visible,
                  selectors_enabled, started_sample, last_handler,
                  sample_path, device_idx, metadata_jsonl, wav_files, saves>>

vars == <<textVars, batchVars, recorderVars>>

\* ------------------------------------------------------------------ bounds

\* Longest raw input string of the text specification.
MaxTextLen == 4

\* Most lines of metadata.jsonl in the batch specification.
MaxRecords == 2

\* Longest reference and hypothesis of a pair handed to calculate_metrics.
MaxPairLen == 3

\* ------------------------------------------------------------- characters

Letters == {"a", "b"}
Uppers == {"B"}
Spaces == {" ", "\t"}
Apostrophe == "'"
Puncts == {"."}

\* The characters input strings are drawn from.
Alphabet == {"a", "B", ".", "'", " ", "\t"}

\* A value that is no text: an operator that has not run yet.
NotRun == "<not run>"

\* str.lower() on one character.
LowerChar(c) == IF c = "B" THEN "b" ELSE c

\* \w of Python's re on str: letters, digits and the underscore.
IsWordChar(c) == c \in Letters \cup Uppers \cup {"_"}

\* \s of Python's re, and what str.split() splits on.
IsSpaceChar(c) == c \in Spaces

\* ------------------------------------------------------------ normalize_text

\* text.lower()
Lower(s) == [k \in 1..Len(s) |-> LowerChar(s[k])]

\* Characters the pattern [^\w\s'] leaves in place.
Kept(c) == IsWordChar(c) \/ IsSpaceChar(c) \/ c = Apostrophe

\* re.sub(r"[^\w\s']", "", text)
StripPunctuation(s) == SelectSeq(s, Kept)

\* str.split() with no separator: the maximal runs of non-whitespace.
\* cur is the token being read, acc the tokens already closed.
RECURSIVE SplitFrom(_, _, _, _)
SplitFrom(s, k, cur, acc) ==
    IF k > Len(s)
    THEN IF cur = <<>> THEN acc ELSE Append(acc, cur)
    ELSE IF IsSpaceChar(s[k])
         THEN SplitFrom(s, k + 1, <<>>, IF cur = <<>> THEN acc ELSE Append(acc, cur))
         ELSE SplitFrom(s, k + 1, Append(cur, s[k]), acc)

Split(s) == SplitFrom(s, 1, <<>>, <<>>)

\* " ".join(tokens)
RECURSIVE Join(_)
Join(tokens) ==
    IF tokens = <<>> THEN <<>>
    ELSE IF Len(tokens) = 1 THEN tokens[1]
    ELSE tokens[1] \o <<" ">> \o Join(Tail(tokens))

\* Mutant: whitespace is collapsed before the punctuation is removed.
normalize_text_collapse_first(s) == StripPunctuation(Join(Split(Lower(s))))

normalize_text(s) == Join(Split(StripPunctuation(Lower(s))))

\* ------------------------------------------------------- metric engine (jiwer)

Min2(a, b) == IF a <= b THEN a ELSE b

\* One row of the edit-distance table: row[j + 1] is the distance between the
\* first n elements of a and the first j elements of b.  prev is row n - 1, x
\* is a[n], acc the part of row n already computed.
RECURSIVE NextRow(_, _, _, _)
NextRow(prev, x, b, acc) ==
    IF Len(acc) = Len(b) + 1 THEN acc
    ELSE LET j == Len(acc)
             sub == prev[j] + (IF x = b[j] THEN 0 ELSE 1)
             del == prev[j + 1] + 1
             ins == acc[j] + 1
         IN NextRow(prev, x, b, Append(acc, Min2(sub, Min2(del, ins))))

RECURSIVE LastRow(_, _, _, _)
LastRow(a, b, n, prev) ==
    IF n > Len(a) THEN prev
    ELSE LastRow(a, b, n + 1, NextRow(prev, a[n], b, <<prev[1] + 1>>))

\* Minimum number of unit-cost substitutions, insertions and deletions that
\* turn sequence a into sequence b.
EditDistance(a, b) ==
    LastRow(a, b, 1, [j \in 1..(Len(b) + 1) |-> j - 1])[Len(b) + 1]

\* The words jiwer compares: the pieces between single spaces, empty pieces
\* dropped.
RECURSIVE WordsFrom(_, _, _, _)
WordsFrom(s, k, cur, acc) ==
    IF k > Len(s)
    THEN IF cur = <<>> THEN acc ELSE Append(acc, cur)
    ELSE IF s[k] = " "
         THEN WordsFrom(s, k + 1, <<>>, IF cur = <<>> THEN acc ELSE Append(acc, cur))
         ELSE WordsFrom(s, k + 1, Append(cur, s[k]), acc)

Words(s) == WordsFrom(s, 1, <<>>, <<>>)

Returned(v) == [ok |-> TRUE, value |-> v]
Raised(e) == [ok |-> FALSE, error |-> e]

\* jiwer.wer(reference, hypothesis): word edits over reference words; an
\* empty reference is an error.
wer(ref, hyp) ==
    IF Words(ref) = <<>>
    THEN Raised("ValueError")
    ELSE Returned([num |-> EditDistance(Words(ref), Words(hyp)),
                   den |-> Len(Words(ref))])

\* jiwer.cer(reference, hypothesis): character edits over reference
\* characters; an empty reference is an error.
cer(ref, hyp) ==
    IF ref = <<>>
    THEN Raised("ValueError")
    ELSE Returned([num |-> EditDistance(ref, hyp), den |-> Len(ref)])

\* ----------------------------------------------------------- calculate_metrics

\* Mutant: the character error rate is stored as the word error rate.
MetricsOf_rates_swapped(ref_norm, hyp_norm) ==
    LET w == wer(ref_norm, hyp_norm)
        c == cer(ref_norm, hyp_norm)
    IN IF ~w.ok THEN w
       ELSE IF ~c.ok THEN c
       ELSE Returned([wer |-> c.value,
                      cer |-> w.value,
                      reference_words |-> Len(Split(ref_norm)),
                      hypothesis_words |-> Len(Split(hyp_norm))])

\* The dict calculate_metrics builds; the first call that raises ends it.
MetricsOf(ref_norm, hyp_norm) ==
    LET w == wer(ref_norm, hyp_norm)
        c == cer(ref_norm, hyp_norm)
    IN IF ~w.ok THEN w
       ELSE IF ~c.ok THEN c
       ELSE Returned([wer |-> w.value,
                      cer |-> c.value,
                      reference_words |-> Len(Split(ref_norm)),
                      hypothesis_words |-> Len(Split(hyp_norm))])

\* Mutant: the hypothesis is compared without being normalised.
calculate_metrics_raw_hypothesis(ref, hyp) ==
    MetricsOf(normalize_text(ref), hyp)

\* Mutant: the reference is compared without being normalised.
calculate_metrics_raw_reference(ref, hyp) ==
    MetricsOf(ref, normalize_text(hyp))

calculate_metrics(ref, hyp) ==
    MetricsOf(normalize_text(ref), normalize_text(hyp))

\* ------------------------------------------------------------ text specification

RECURSIVE TextsOfLen(_)
TextsOfLen(n) ==
    IF n = 0 THEN {<<>>}
    ELSE {Append(s, c) : s \in TextsOfLen(n - 1), c \in Alphabet}

Texts == UNION {TextsOfLen(n) : n \in 0..MaxTextLen}

\* The characters and strings that pairs (reference, hypothesis) are drawn from.
PairAlphabet == {"a", "B", ".", " "}

RECURSIVE PairTextsOfLen(_)
PairTextsOfLen(n) ==
    IF n = 0 THEN {<<>>}
    ELSE {Append(s, c) : s \in PairTextsOfLen(n - 1), c \in PairAlphabet}

PairTexts == UNION {PairTextsOfLen(n) : n \in 0..MaxPairLen}

\* None: what dict.get finds for an absent key, currentData() of an empty combo.
Absent == "<absent>"

\* self.stream = None
NoStream == 0

\* The recorder variables while the recorder is not exercised, which is also
\* the state __init__ leaves: nothing recorded, only the record button shown.
RecorderClosed ==
    /\ is_recording = FALSE
    /\ is_paused = FALSE
    /\ has_unsaved_recording = FALSE
    /\ audio_data = <<>>
    /\ stream = NoStream
    /\ streams = {}
    /\ in_callback = {}
    /\ sessions = 0
    /\ record_btn_enabled = TRUE
    /\ pause_btn_visible = FALSE
    /\ save_btn_visible = FALSE
    /\ discard_btn_visible = FALSE
    /\ selectors_enabled = TRUE
    /\ started_sample = Absent
    /\ last_handler = "none"
    /\ saves = <<>>

RecorderIdle ==
    /\ RecorderClosed
    /\ sample_path = Absent
    /\ device_idx = Absent
    /\ metadata_jsonl = <<>>
    /\ wav_files = [f \in {} |-> <<>>]

\* The batch part of the state while only the text functions are exercised.
BatchIdle ==
    /\ FIREWORKS_API_KEY = "key"
    /\ analysed = <<>>
    /\ loads = <<>>
    /\ records = <<>>
    /\ pc = "idle"
    /\ i = 0
    /\ ground_truths = [f \in {} |-> <<>>]
    /\ reference = <<>>
    /\ transcription = <<>>
    /\ results = <<>>
    /\ outcome = <<>>
    /\ requests = <<>>
    /\ responses = <<>>
    /\ caught = <<>>
    /\ escaped = "none"
    /\ files = {}
    /\ printed = <<>>

InitText ==
    /\ RecorderIdle
    /\ text \in Texts
    /\ phase = "input"
    /\ normalized = NotRun
    /\ renormalized = NotRun
    /\ hypothesis = NotRun
    /\ measured = NotRun
    /\ BatchIdle

\* normalized = normalize_text(text)
Normalize ==
    /\ phase = "input"
    /\ normalized' = normalize_text(text)
    /\ phase' = "normalized"
    /\ UNCHANGED <<text, renormalized, hypothesis, measured, batchVars, recorderVars>>

\* renormalized = normalize_text(normalized)
NormalizeAgain ==
    /\ phase = "normalized"
    /\ renormalized' = normalize_text(normalized)
    /\ phase' = "renormalized"
    /\ UNCHANGED <<text, normalized, hypothesis, measured, batchVars, recorderVars>>

\* measured = calculate_metrics(text, text): the reference scored against itself
MeasureSelf ==
    /\ phase = "input"
    /\ hypothesis' = text
    /\ measured' = calculate_metrics(text, text)
    /\ phase' = "measured"
    /\ UNCHANGED <<text, normalized, renormalized, batchVars, recorderVars>>

\* measured = calculate_metrics(text, h) for a hypothesis h of its own
MeasurePair ==
    /\ phase = "input"
    /\ text \in PairTexts
    /\ \E h \in PairTexts :
          /\ hypothesis' = h
          /\ measured' = calculate_metrics(text, h)
    /\ phase' = "measured"
    /\ UNCHANGED <<text, normalized, renormalized, batchVars, recorderVars>>

NextText == Normalize \/ NormalizeAgain \/ MeasureSelf \/ MeasurePair

SpecText == InitText /\ [][NextText]_vars

\* ------------------------------------------------------ batch: the environment

\* The status the transcription client accepts.
HTTP_OK == 200

DictGet(d, key, default) == IF d[key] = Absent THEN default ELSE d[key]

\* The files of samples/ and their contents; MissingSample names no file.
SampleText(f) ==
    IF f = "a.txt" THEN <<"A", " ", "b", ".">>
    ELSE <<".", ".">>
SamplesOnDisk == {"a.txt", "dots.txt"}
MissingSample == "missing.txt"

\* The annotation dicts of the metadata lines.
Annotations ==
    {[pace |-> "fast", background_noise |-> "cafe"],
     [pace |-> "slow", background_noise |-> "cafe"],
     [pace |-> Absent, background_noise |-> Absent]}

Durations == {30}

\* What os.environ.get("FIREWORKS_API_KEY") can be: a key, the empty string,
\* or None.
ApiKeys == {"key", "", Absent}

\* The name the metadata file is opened under.
METADATA_FILE == "metadata.jsonl"

\* record.get("duration_seconds", 0): the duration of a line without the
\* field, or of a take so short that the recorder's round(duration, 2) is 0.
ZeroDuration == 0

\* The metadata line at position n of metadata.jsonl; its id is its position.
\* Besides the lines of every combination there is one of a take of no length.
MetadataLines(n) ==
    [id : {n},
     audio_exists : BOOLEAN,
     sample_file : SamplesOnDisk \cup {MissingSample},
     duration_seconds : Durations,
     annotations : Annotations]
    \cup
    [id : {n},
     audio_exists : {TRUE},
     sample_file : {"a.txt"},
     duration_seconds : {ZeroDuration},
     annotations : {[pace |-> "fast", background_noise |-> "cafe"]}]

RECURSIVE MetadataFiles(_)
MetadataFiles(n) ==
    IF n = 0 THEN {<<>>}
    ELSE {Append(m, r) : m \in MetadataFiles(n - 1), r \in MetadataLines(n)}

\* What requests.post can come back with: a response (status, JSON body with
\* or without a text field, raw body) or an exception of its own.
JsonWithText(t) == [has_text |-> TRUE, text |-> t]
JsonWithoutText == [has_text |-> FALSE, text |-> <<>>]
Response(status, json, raw) ==
    [kind |-> "response", status_code |-> status, json |-> json, raw |-> raw]
RequestException ==
    [kind |-> "exception", status_code |-> 0, json |-> JsonWithoutText, raw |-> "ConnectionError"]
NoResponse ==
    [kind |-> "none", status_code |-> 0, json |-> JsonWithoutText, raw |-> ""]

Responses ==
    {Response(HTTP_OK, JsonWithText(<<"a", " ", "B">>), "{text}"),
     Response(HTTP_OK, JsonWithText(<<"b">>), "{text}"),
     Response(HTTP_OK, JsonWithoutText, "{}"),
     Response(201, JsonWithText(<<"a", " ", "b">>), "{text}"),
     Response(500, JsonWithoutText, "Internal Server Error"),
     RequestException}

\* ------------------------------------------------------------ transcribe_audio

\* The exception transcribe_audio raises for a response it does not accept.
TranscriptionFailed(resp) ==
    [type |-> "Exception", has_status |-> TRUE,
     status_code |-> resp.status_code, body |-> resp.raw]

\* The exception of requests.post itself, which transcribe_audio lets through.
RequestError(resp) ==
    [type |-> resp.raw, has_status |-> FALSE, status_code |-> 0, body |-> ""]

\* Mutant: every 2xx status is accepted.
transcribe_audio_accepts_2xx(resp) ==
    IF resp.kind = "exception" THEN Raised(RequestError(resp))
    ELSE IF resp.status_code \in 200..299
         THEN Returned(IF resp.json.has_text THEN resp.json.text ELSE <<>>)
         ELSE Raised(TranscriptionFailed(resp))

\* Mutant: a response with another status is read like a 200.
transcribe_audio_no_raise(resp) ==
    IF resp.kind = "exception" THEN Raised(RequestError(resp))
    ELSE Returned(IF resp.json.has_text THEN resp.json.text ELSE <<>>)

transcribe_audio(resp) ==
    IF resp.kind = "exception" THEN Raised(RequestError(resp))
    ELSE IF resp.status_code = HTTP_OK
         THEN Returned(IF resp.json.has_text THEN resp.json.text ELSE <<>>)
         ELSE Raised(TranscriptionFailed(resp))

\* ------------------------------------------------------------- run_evaluation

\* The text variables while only the batch is exercised.
TextIdle ==
    /\ text = <<>>
    /\ phase = "idle"
    /\ normalized = NotRun
    /\ renormalized = NotRun
    /\ hypothesis = NotRun
    /\ measured = NotRun

\* The evaluator is started: the environment holds a key, an empty key or
\* none; nothing has been read or written.
Init ==
    /\ TextIdle
    /\ RecorderIdle
    /\ FIREWORKS_API_KEY \in ApiKeys
    /\ analysed = <<>>
    /\ loads = <<>>
    /\ records = <<>>
    /\ pc = "start"
    /\ i = 0
    /\ ground_truths = [f \in {} |-> <<>>]
    /\ reference = <<>>
    /\ transcription = <<>>
    /\ results = <<>>
    /\ outcome = <<>>
    /\ requests = <<>>
    /\ responses = <<>>
    /\ caught = <<>>
    /\ escaped = "none"
    /\ files = {}
    /\ printed = <<>>

\* Mutant: the module goes on without a key.
CheckCredential_NoRaise ==
    /\ pc = "start"
    /\ pc' = "main"
    /\ UNCHANGED <<FIREWORKS_API_KEY, analysed, loads, records, i, ground_truths, reference,
                   transcription, results, outcome, requests, responses, caught,
                   escaped, files, printed, textVars, recorderVars>>

\* FIREWORKS_API_KEY = os.environ.get("FIREWORKS_API_KEY");
\* if not FIREWORKS_API_KEY: raise ValueError(...)   (at import, before __main__)
CheckCredential ==
    /\ pc = "start"
    /\ pc' = IF FIREWORKS_API_KEY \in {Absent, ""} THEN "fatal" ELSE "main"
    /\ UNCHANGED <<FIREWORKS_API_KEY, analysed, loads, records, i, ground_truths, reference,
                   transcription, results, outcome, requests, responses, caught,
                   escaped, files, printed, textVars, recorderVars>>

\* run_evaluation(): records = load_metadata(); ground_truths = {}; results = [].
LoadMetadata ==
    /\ pc = "main"
    /\ loads' = Append(loads, METADATA_FILE)
    /\ \E lines \in UNION {MetadataFiles(n) : n \in 0..MaxRecords} :
          /\ records' = lines
          /\ outcome' = [k \in 1..Len(lines) |-> "PENDING"]
          /\ responses' = [k \in 1..Len(lines) |-> NoResponse]
    /\ pc' = "loop"
    /\ UNCHANGED <<FIREWORKS_API_KEY, analysed, i, ground_truths, reference, transcription,
                   results, requests, caught, escaped, files, printed, textVars, recorderVars>>

\* Mutant: the missing-audio branch does not leave the iteration.
CheckAudio_NoContinue ==
    /\ pc = "loop"
    /\ i < Len(records)
    /\ i' = i + 1
    /\ pc' = "ground_truth"
    /\ UNCHANGED <<FIREWORKS_API_KEY, analysed, loads, records, ground_truths, reference, transcription, results,
                   outcome, requests, responses, caught, escaped, files, printed,
                   textVars, recorderVars>>

\* for i, record in enumerate(records, 1): ... if not audio_path.exists(): continue
CheckAudio ==
    /\ pc = "loop"
    /\ i < Len(records)
    /\ i' = i + 1
    /\ IF records[i + 1].audio_exists
       THEN /\ pc' = "ground_truth"
            /\ UNCHANGED outcome
       ELSE /\ pc' = "loop"
            /\ outcome' = [outcome EXCEPT ![i + 1] = "SKIPPED"]
    /\ UNCHANGED <<FIREWORKS_API_KEY, analysed, loads, records, ground_truths, reference, transcription, results,
                   requests, responses, caught, escaped, files, printed, textVars, recorderVars>>

\* Mutant: the ground truth is loaded for every record, cached or not.
GetGroundTruth_NoCache ==
    /\ pc = "ground_truth"
    /\ LET sample_file == records[i].sample_file
       IN /\ loads' = Append(loads, sample_file)
          /\ IF sample_file \in SamplesOnDisk
             THEN /\ ground_truths' =
                         [f \in DOMAIN ground_truths \cup {sample_file} |->
                             IF f = sample_file THEN SampleText(f) ELSE ground_truths[f]]
                  /\ reference' = SampleText(sample_file)
                  /\ pc' = "transcribe"
                  /\ UNCHANGED escaped
             ELSE /\ escaped' = "FileNotFoundError"
                  /\ pc' = "aborted"
                  /\ UNCHANGED <<ground_truths, reference>>
    /\ UNCHANGED <<FIREWORKS_API_KEY, analysed, records, i, transcription, results, outcome,
                   requests, responses, caught, files, printed, textVars, recorderVars>>

\* if sample_file not in ground_truths: ground_truths[sample_file] =
\* load_ground_truth(sample_file); reference = ground_truths[sample_file].
\* open() of a file that is not there raises outside any try.
GetGroundTruth ==
    /\ pc = "ground_truth"
    /\ LET sample_file == records[i].sample_file
       IN IF sample_file \in DOMAIN ground_truths
          THEN /\ reference' = ground_truths[sample_file]
               /\ pc' = "transcribe"
               /\ UNCHANGED <<ground_truths, escaped, loads>>
          ELSE /\ loads' = Append(loads, sample_file)
               /\ IF sample_file \in SamplesOnDisk
                  THEN /\ ground_truths' =
                              [f \in DOMAIN ground_truths \cup {sample_file} |->
                                  IF f = sample_file THEN SampleText(f) ELSE ground_truths[f]]
                       /\ reference' = SampleText(sample_file)
                       /\ pc' = "transcribe"
                       /\ UNCHANGED escaped
                  ELSE /\ escaped' = "FileNotFoundError"
                       /\ pc' = "aborted"
                       /\ UNCHANGED <<ground_truths, reference>>
    /\ UNCHANGED <<FIREWORKS_API_KEY, analysed, records, i, transcription, results, outcome,
                   requests, responses, caught, files, printed, textVars, recorderVars>>

\* transcribe_audio(audio_path): the request is posted.
SendRequest ==
    /\ pc = "transcribe"
    /\ requests' = Append(requests, records[i].id)
    /\ outcome' = [outcome EXCEPT ![i] = "TRANSCRIBING"]
    /\ pc' = "awaiting"
    /\ UNCHANGED <<FIREWORKS_API_KEY, analysed, loads, records, i, ground_truths, reference, transcription, results,
                   responses, caught, escaped, files, printed, textVars, recorderVars>>

\* Mutant: a failed request is sent once more.
ReceiveResponse_Retry ==
    /\ pc = "awaiting"
    /\ \E resp \in Responses :
          /\ responses' = [responses EXCEPT ![i] = resp]
          /\ LET t == transcribe_audio(resp)
             IN IF t.ok
                THEN /\ transcription' = t.value
                     /\ pc' = "metrics"
                     /\ UNCHANGED <<caught, outcome>>
                ELSE /\ caught' = Append(caught, [id |-> records[i].id, error |-> t.error])
                     /\ IF \A j \in 1..Len(caught) : caught[j].id # records[i].id
                        THEN /\ pc' = "transcribe"
                             /\ UNCHANGED outcome
                        ELSE /\ pc' = "loop"
                             /\ outcome' = [outcome EXCEPT ![i] = "SKIPPED"]
                     /\ UNCHANGED transcription
    /\ UNCHANGED <<FIREWORKS_API_KEY, analysed, loads, records, i, ground_truths, reference, results, requests,
                   escaped, files, printed, textVars, recorderVars>>

\* The request comes back: try: transcription = transcribe_audio(audio_path)
\* except Exception as e: print; continue
ReceiveResponse ==
    /\ pc = "awaiting"
    /\ \E resp \in Responses :
          /\ responses' = [responses EXCEPT ![i] = resp]
          /\ LET t == transcribe_audio(resp)
             IN IF t.ok
                THEN /\ transcription' = t.value
                     /\ pc' = "metrics"
                     /\ UNCHANGED <<caught, outcome>>
                ELSE /\ caught' = Append(caught, [id |-> records[i].id, error |-> t.error])
                     /\ outcome' = [outcome EXCEPT ![i] = "SKIPPED"]
                     /\ pc' = "loop"
                     /\ UNCHANGED transcription
    /\ UNCHANGED <<FIREWORKS_API_KEY, analysed, loads, records, i, ground_truths, reference, results, requests,
                   escaped, files, printed, textVars, recorderVars>>

\* The result dict of one record (the "sample" display name, copied through
\* like sample_file, is left out).
Result(record, trans, ref, metrics) ==
    [id |-> record.id,
     sample_file |-> record.sample_file,
     annotations |-> record.annotations,
     duration_seconds |-> record.duration_seconds,
     transcription |-> trans,
     reference |-> ref,
     metrics |-> metrics]

\* Mutant: the result is put in front of the list.
AppendResult_Prepend(rs, r) == <<r>> \o rs

\* results.append(result)
AppendResult(rs, r) == Append(rs, r)

\* The metrics field of a result whose metrics were never computed.
NoMetrics ==
    [wer |-> [num |-> 0, den |-> 0], cer |-> [num |-> 0, den |-> 0],
     reference_words |-> 0, hypothesis_words |-> 0]

\* Mutant: the result is appended before its metrics are computed.
Score_AppendFirst ==
    /\ pc = "metrics"
    /\ LET m == calculate_metrics(reference, transcription)
       IN IF m.ok
          THEN /\ results' = AppendResult(results, Result(records[i], transcription, reference, m.value))
               /\ outcome' = [outcome EXCEPT ![i] = "SCORED"]
               /\ pc' = "loop"
               /\ UNCHANGED escaped
          ELSE /\ results' = AppendResult(results, Result(records[i], transcription, reference, NoMetrics))
               /\ escaped' = m.error
               /\ pc' = "aborted"
               /\ UNCHANGED outcome
    /\ UNCHANGED <<FIREWORKS_API_KEY, analysed, loads, records, i, ground_truths, reference, transcription, requests,
                   responses, caught, files, printed, textVars, recorderVars>>

\* metrics = calculate_metrics(reference, transcription); result = {...};
\* results.append(result).  An exception of calculate_metrics is not caught.
Score ==
    /\ pc = "metrics"
    /\ LET m == calculate_metrics(reference, transcription)
       IN IF m.ok
          THEN /\ results' = AppendResult(results, Result(records[i], transcription, reference, m.value))
               /\ outcome' = [outcome EXCEPT ![i] = "SCORED"]
               /\ pc' = "loop"
               /\ UNCHANGED escaped
          ELSE /\ escaped' = m.error
               /\ pc' = "aborted"
               /\ UNCHANGED <<results, outcome>>
    /\ UNCHANGED <<FIREWORKS_API_KEY, analysed, loads, records, i, ground_truths, reference, transcription, requests,
                   responses, caught, files, printed, textVars, recorderVars>>

\* The loop is over: return results.
ReturnResults ==
    /\ pc = "loop"
    /\ i = Len(records)
    /\ pc' = "save"
    /\ UNCHANGED <<FIREWORKS_API_KEY, analysed, loads, records, i, ground_truths, reference, transcription, results,
                   outcome, requests, responses, caught, escaped, files, printed,
                   textVars, recorderVars>>

\* ---------------------------------------------------------------- save_results

\* Exact arithmetic on the error rates, which are fractions [num, den].
FracAdd(a, b) == [num |-> a.num * b.den + b.num * a.den, den |-> a.den * b.den]
FracLeq(a, b) == a.num * b.den <= b.num * a.den

\* sum(xs), min(xs), max(xs) of a non-empty list of rates
RECURSIVE FracSum(_)
FracSum(xs) == IF Len(xs) = 1 THEN xs[1] ELSE FracAdd(xs[1], FracSum(Tail(xs)))
RECURSIVE FracMin(_)
FracMin(xs) ==
    IF Len(xs) = 1 THEN xs[1]
    ELSE LET m == FracMin(Tail(xs)) IN IF FracLeq(xs[1], m) THEN xs[1] ELSE m
RECURSIVE FracMax(_)
FracMax(xs) ==
    IF Len(xs) = 1 THEN xs[1]
    ELSE LET m == FracMax(Tail(xs)) IN IF FracLeq(m, xs[1]) THEN xs[1] ELSE m

\* sum(xs) / len(xs)
Mean(xs) == [num |-> FracSum(xs).num, den |-> FracSum(xs).den * Len(xs)]

\* Mutant: a group's list is replaced by, not extended with, the new rate.
AddToGroup_Overwrite(groups, g, w) ==
    [h \in DOMAIN groups \cup {g} |-> IF h = g THEN <<w>> ELSE groups[h]]

\* if g not in groups: groups[g] = []; groups[g].append(w)
AddToGroup(groups, g, w) ==
    [h \in DOMAIN groups \cup {g} |->
        IF h = g
        THEN IF g \in DOMAIN groups THEN Append(groups[g], w) ELSE <<w>>
        ELSE groups[h]]

\* The groups dict after the loop over the first n results:
\* for r in results: g = r["annotations"].get(key, "unknown"); ...
RECURSIVE GroupBy(_, _, _)
GroupBy(rs, key, n) ==
    IF n = 0 THEN [g \in {} |-> <<>>]
    ELSE AddToGroup(GroupBy(rs, key, n - 1),
                    DictGet(rs[n].annotations, key, "unknown"),
                    rs[n].metrics.wer)

\* summary["by_..."][g] = {"count": len(wers), "avg_wer": sum(wers) / len(wers)}
GroupStats(groups) ==
    [g \in DOMAIN groups |-> [count |-> Len(groups[g]), avg_wer |-> Mean(groups[g])]]

\* The summary dict of a non-empty results list.
Summary(rs, timestamp) ==
    LET wers == [k \in 1..Len(rs) |-> rs[k].metrics.wer]
        cers == [k \in 1..Len(rs) |-> rs[k].metrics.cer]
    IN [timestamp |-> timestamp,
        total_recordings |-> Len(rs),
        avg_wer |-> Mean(wers),
        avg_cer |-> Mean(cers),
        min_wer |-> FracMin(wers),
        max_wer |-> FracMax(wers),
        by_pace |-> GroupStats(GroupBy(rs, "pace", Len(rs))),
        by_background |-> GroupStats(GroupBy(rs, "background_noise", Len(rs)))]

\* The lines of transcripts_<timestamp>.jsonl
Transcripts(rs) ==
    [k \in 1..Len(rs) |->
        [id |-> rs[k].id, transcription |-> rs[k].transcription, wer |-> rs[k].metrics.wer]]

\* A file of results/: <prefix>_<timestamp>.<ext> and what was dumped into it.
File(prefix, timestamp, content) ==
    [prefix |-> prefix, timestamp |-> timestamp, content |-> content]

\* datetime.now().strftime("%Y%m%d_%H%M%S") when save_results runs, and later.
Timestamps == {"20250101_120000", "20250101_120001"}
Later(timestamp) == IF timestamp = "20250101_120000" THEN "20250101_120001" ELSE "20250101_120002"

\* Mutant: the summary file takes a timestamp of its own.
save_results_restamped(rs, timestamp) ==
    [files |->
        {File("eval", timestamp, rs), File("transcripts", timestamp, Transcripts(rs))}
        \cup (IF rs # <<>> THEN {File("summary", Later(timestamp), Summary(rs, timestamp))} ELSE {}),
     printed |-> IF rs # <<>> THEN <<Summary(rs, timestamp)>> ELSE <<>>]

\* What save_results(results) writes and prints when the clock reads timestamp.
save_results(rs, timestamp) ==
    [files |->
        {File("eval", timestamp, rs), File("transcripts", timestamp, Transcripts(rs))}
        \cup (IF rs # <<>> THEN {File("summary", timestamp, Summary(rs, timestamp))} ELSE {}),
     printed |-> IF rs # <<>> THEN <<Summary(rs, timestamp)>> ELSE <<>>]

\* results = run_evaluation(); save_results(results)
SaveResults ==
    /\ pc = "save"
    /\ \E timestamp \in Timestamps :
          /\ files' = save_results(results, timestamp).files
          /\ printed' = save_results(results, timestamp).printed
    /\ pc' = "done"
    /\ UNCHANGED <<FIREWORKS_API_KEY, analysed, loads, records, i, ground_truths, reference, transcription, results,
                   outcome, requests, responses, caught, escaped, textVars, recorderVars>>

\* wpm = (word_count / duration) * 60, as an exact fraction; the division
\* raises for a duration of 0.
Wpm(item) ==
    IF item.duration_seconds = 0 THEN Raised("ZeroDivisionError")
    ELSE Returned([num |-> item.metrics.reference_words * 60,
                   den |-> item.duration_seconds])

\* for item in data: ... wpm = ...; records.append({...}): the list of the
\* wpm values, or the exception of the first item that raises.
ProcessItems(data) ==
    IF \E k \in 1..Len(data) : ~Wpm(data[k]).ok
    THEN Raised("ZeroDivisionError")
    ELSE Returned([k \in 1..Len(data) |-> Wpm(data[k]).value])

\* generate_visualizations.py / generate_pdf_report.py: data = json.load(f)
\* of the eval file of the run, then the record processing.
ProcessEvalFile ==
    /\ pc = "done"
    /\ analysed = <<>>
    /\ \E f \in files :
          /\ f.prefix = "eval"
          /\ analysed' = Append(analysed, ProcessItems(f.content))
    /\ UNCHANGED <<FIREWORKS_API_KEY, loads, records, pc, i, ground_truths, reference,
                   transcription, results, outcome, requests, responses, caught,
                   escaped, files, printed, textVars, recorderVars>>

Next ==
    \/ CheckCredential
    \/ LoadMetadata
    \/ CheckAudio
    \/ GetGroundTruth
    \/ SendRequest
    \/ ReceiveResponse
    \/ Score
    \/ ReturnResults
    \/ SaveResults
    \/ ProcessEvalFile

Spec == Init /\ [][Next]_vars

\* ------------------------------------------------------------ AudioRecorder

\* The most start_recording calls, and buffers in audio_data, followed.
MaxSessions == 2
MaxBuffers == 1

\* uuid.uuid4().hex[:4]: four hexadecimal digits.
RecordingIds == {"0a1b", "c2d3"}

\* The sample texts the combo offers: samples/*.txt.
SamplePaths == {"a.txt", "b.txt"}

\* The input devices the combo offers, by index.
Devices == {"0", "1"}

\* audio_path / f"{recording_id}.wav", and its name relative to dataset/.
AudioPath(recording_id) == <<"audio", recording_id, ".wav">>

\* The state of the recorder's state machine the three flags stand for.
RecorderState ==
    IF is_recording /\ is_paused THEN "INVALID"
    ELSE IF is_recording THEN "RECORDING"
    ELSE IF is_paused THEN "PAUSED"
    ELSE IF has_unsaved_recording THEN "STOPPED"
    ELSE "IDLE"

\* indata.copy(): a buffer, marked with the stream that delivered it and the
\* state the recorder is in when it is appended.
Buffer(s) == [stream |-> s, appended_in |-> RecorderState]

\* A recording made by an earlier run of the recorder.
EarlierAudio == <<[stream |-> 0, appended_in |-> "RECORDING"]>>
EarlierLine ==
    [id |-> "0a1b", audio |-> AudioPath("0a1b"), sample_file |-> "a.txt",
     duration_seconds |-> 1]

\* The recorder window is shown: the dataset holds one earlier recording; a
\* sample and a device are selected, or the combos are empty.
InitRecorder ==
    /\ TextIdle
    /\ BatchIdle
    /\ RecorderClosed
    /\ sample_path \in SamplePaths \cup {Absent}
    /\ device_idx \in Devices \cup {Absent}
    /\ metadata_jsonl = <<EarlierLine>>
    /\ wav_files = [f \in {EarlierLine.audio} |-> EarlierAudio]

\* reset_ui()
reset_ui ==
    /\ is_recording' = FALSE
    /\ is_paused' = FALSE
    /\ has_unsaved_recording' = FALSE
    /\ record_btn_enabled' = TRUE
    /\ pause_btn_visible' = FALSE
    /\ save_btn_visible' = FALSE
    /\ discard_btn_visible' = FALSE
    /\ selectors_enabled' = TRUE

\* self.mic_combo.setEnabled(False); self.sample_combo.setEnabled(False)
disable_selectors == selectors_enabled' = FALSE

\* Mutant: the except branch clears is_recording and leaves the rest as the
\* take's start set it.
start_failed_no_reset(failure) ==
    /\ is_recording' = FALSE
    /\ is_paused' = FALSE
    /\ has_unsaved_recording' = FALSE
    /\ pause_btn_visible' = TRUE
    /\ save_btn_visible' = FALSE
    /\ discard_btn_visible' = FALSE
    /\ disable_selectors
    /\ stream' = IF failure = "not started" THEN sessions + 1 ELSE stream
    /\ UNCHANGED <<record_btn_enabled, streams>>

\* except Exception as e: self.is_recording = False; ...; self.reset_ui()
\* self.stream is not rebound when InputStream(...) raises, and refers to the
\* new stream, open and not running, when stream.start() raises.
start_failed(failure) ==
    /\ reset_ui
    /\ stream' = IF failure = "not started" THEN sessions + 1 ELSE stream
    /\ UNCHANGED streams

\* start_recording(): a warning and nothing else without a sample or a device;
\* otherwise a fresh audio_data, the flags of a running take, and a new input
\* stream bound to self.stream, or the except branch when it cannot be opened.
start_recording ==
    IF sample_path = Absent \/ device_idx = Absent
    THEN /\ last_handler' = "start_refused"
         /\ UNCHANGED <<is_recording, is_paused, has_unsaved_recording, audio_data,
                        stream, streams, sessions, record_btn_enabled,
                        pause_btn_visible, save_btn_visible, discard_btn_visible,
                        selectors_enabled, started_sample>>
    ELSE /\ sessions < MaxSessions
         /\ audio_data' = <<>>
         /\ sessions' = sessions + 1
         /\ started_sample' = sample_path
         /\ \E outcome_of_open \in {"started", "not opened", "not started"} :
               IF outcome_of_open = "started"
               THEN /\ is_recording' = TRUE
                    /\ is_paused' = FALSE
                    /\ has_unsaved_recording' = FALSE
                    /\ pause_btn_visible' = TRUE
                    /\ save_btn_visible' = FALSE
                    /\ discard_btn_visible' = FALSE
                    /\ disable_selectors
                    /\ stream' = sessions + 1
                    /\ streams' = streams \cup {sessions + 1}
                    /\ last_handler' = "start_opened"
                    /\ UNCHANGED record_btn_enabled
               ELSE /\ start_failed(outcome_of_open)
                    /\ last_handler' = "start_failed"

\* Mutant: a stopped take leaves the record button enabled.
keep_take_record_enabled ==
    /\ is_recording' = FALSE
    /\ is_paused' = FALSE
    /\ has_unsaved_recording' = TRUE
    /\ pause_btn_visible' = FALSE
    /\ save_btn_visible' = TRUE
    /\ discard_btn_visible' = TRUE
    /\ UNCHANGED <<record_btn_enabled, selectors_enabled>>

\* stop_recording(), if self.audio_data: the take is kept for Save or Discard.
keep_take ==
    /\ is_recording' = FALSE
    /\ is_paused' = FALSE
    /\ has_unsaved_recording' = TRUE
    /\ pause_btn_visible' = FALSE
    /\ save_btn_visible' = TRUE
    /\ discard_btn_visible' = TRUE
    /\ record_btn_enabled' = FALSE
    /\ UNCHANGED selectors_enabled

\* stop_recording(): the flags are cleared; stream.stop() waits for a callback
\* of that stream in progress, close() ends it; with audio the take is kept
\* for Save or Discard, without audio the user interface is reset.
stop_recording ==
    /\ stream # NoStream => stream \notin in_callback
    /\ stream' = NoStream
    /\ streams' = streams \ {stream}
    /\ IF audio_data # <<>>
       THEN keep_take /\ last_handler' = "stop_kept"
       ELSE reset_ui /\ last_handler' = "stop_empty"
    /\ UNCHANGED <<audio_data, sessions, started_sample>>

\* The record button: toggle_recording()
toggle_recording ==
    /\ record_btn_enabled
    /\ IF is_recording THEN stop_recording ELSE start_recording
    /\ UNCHANGED <<in_callback, sample_path, device_idx, metadata_jsonl, wav_files,
                   saves, textVars, batchVars>>

\* The pause button: toggle_pause()
toggle_pause ==
    /\ pause_btn_visible
    /\ IF is_paused
       THEN /\ is_paused' = FALSE
            /\ is_recording' = TRUE
            /\ last_handler' = "resume"
       ELSE /\ is_paused' = TRUE
            /\ is_recording' = FALSE
            /\ last_handler' = "pause"
    /\ UNCHANGED <<selectors_enabled, started_sample, has_unsaved_recording, audio_data, stream, streams, in_callback,
                   sessions, record_btn_enabled, pause_btn_visible, save_btn_visible,
                   discard_btn_visible, sample_path, device_idx, metadata_jsonl,
                   wav_files, saves, textVars, batchVars>>

\* audio_callback, on the driver's thread, up to its test:
\* if self.is_recording and not self.is_paused:
\* (a callback that fails the test returns and changes nothing)
audio_callback_check(s) ==
    /\ s \in streams \ in_callback
    /\ is_recording /\ ~is_paused
    /\ Len(audio_data) + Cardinality(in_callback) < MaxBuffers
    /\ in_callback' = in_callback \cup {s}
    /\ UNCHANGED <<selectors_enabled, started_sample, last_handler,
                   is_recording, is_paused, has_unsaved_recording, audio_data, stream,
                   streams, sessions, record_btn_enabled, pause_btn_visible,
                   save_btn_visible, discard_btn_visible, sample_path, device_idx,
                   metadata_jsonl, wav_files, saves, textVars, batchVars>>

\* audio_callback, after its test: self.audio_data.append(indata.copy())
audio_callback_append(s) ==
    /\ s \in in_callback
    /\ audio_data' = Append(audio_data, Buffer(s))
    /\ in_callback' = in_callback \ {s}
    /\ UNCHANGED <<selectors_enabled, started_sample, last_handler,
                   is_recording, is_paused, has_unsaved_recording, stream, streams,
                   sessions, record_btn_enabled, pause_btn_visible, save_btn_visible,
                   discard_btn_visible, sample_path, device_idx, metadata_jsonl,
                   wav_files, saves, textVars, batchVars>>

\* A stream self.stream no longer refers to was never stopped; whether it runs
\* on or ends with its object is the library's affair: it may end at any time.
unreferenced_stream_ends(s) ==
    /\ s \in streams \ ({stream} \cup in_callback)
    /\ streams' = streams \ {s}
    /\ UNCHANGED <<selectors_enabled, started_sample, last_handler,
                   is_recording, is_paused, has_unsaved_recording, audio_data, stream,
                   in_callback, sessions, record_btn_enabled, pause_btn_visible,
                   save_btn_visible, discard_btn_visible, sample_path, device_idx,
                   metadata_jsonl, wav_files, saves, textVars, batchVars>>

\* The discard button: discard_recording()
discard_recording ==
    /\ discard_btn_visible
    /\ audio_data' = <<>>
    /\ reset_ui
    /\ last_handler' = "discard"
    /\ UNCHANGED <<stream, streams, in_callback, sessions, sample_path, device_idx,
                   started_sample, metadata_jsonl, wav_files, saves, textVars, batchVars>>

\* The metadata entry save_recording builds (the fields the evaluator reads).
MetadataEntry(recording_id, audio) ==
    [id |-> recording_id,
     audio |-> AudioPath(recording_id),
     sample_file |-> sample_path,
     duration_seconds |-> Len(audio)]

\* wave.open(str(filepath), 'wb') ... wf.writeframes(audio.tobytes())
WriteWav(fs, path, audio) ==
    [f \in DOMAIN fs \cup {path} |-> IF f = path THEN audio ELSE fs[f]]

\* Mutant: the metadata file is opened for writing, not for appending.
AppendLine_Truncating(lines, entry) == <<entry>>

\* with open(metadata_file, 'a') as f: f.write(json.dumps(metadata) + "\n")
AppendLine(lines, entry) == Append(lines, entry)

\* The save button: save_recording()
save_recording ==
    /\ save_btn_visible
    /\ \E recording_id \in RecordingIds :
          LET audio == audio_data
              entry == MetadataEntry(recording_id, audio)
          IN /\ wav_files' = WriteWav(wav_files, AudioPath(recording_id), audio)
             /\ metadata_jsonl' = AppendLine(metadata_jsonl, entry)
             /\ saves' = Append(saves, [line |-> entry, audio |-> audio,
                                         started_sample |-> started_sample])
    /\ audio_data' = <<>>
    /\ reset_ui
    /\ last_handler' = "save"
    /\ UNCHANGED <<stream, streams, in_callback, sessions, sample_path, device_idx,
                   started_sample, textVars, batchVars>>

\* The user picks another sample in the sample selector, if it is enabled.
select_sample ==
    /\ selectors_enabled
    /\ \E sample \in SamplePaths \ {sample_path} : sample_path' = sample
    /\ UNCHANGED <<is_recording, is_paused, has_unsaved_recording, audio_data, stream,
                   streams, in_callback, sessions, record_btn_enabled,
                   pause_btn_visible, save_btn_visible, discard_btn_visible,
                   selectors_enabled, started_sample, last_handler, device_idx,
                   metadata_jsonl, wav_files, saves, textVars, batchVars>>

\* The Refresh Devices button, which no handler disables: load_audio_devices()
\* clears the microphone selector, fills it with the input devices the system
\* reports and selects the preferred one, else the default one, else the
\* first. The system reports the devices of Devices, preferring any of them.
load_audio_devices ==
    /\ \E preferred \in Devices \ {device_idx} : device_idx' = preferred
    /\ UNCHANGED <<is_recording, is_paused, has_unsaved_recording, audio_data, stream,
                   streams, in_callback, sessions, record_btn_enabled,
                   pause_btn_visible, save_btn_visible, discard_btn_visible,
                   selectors_enabled, started_sample, last_handler,
                   sample_path, metadata_jsonl, wav_files, saves, textVars, batchVars>>

\* The evaluator, a process of its own, reads the store: load_metadata()
load_metadata ==
    /\ records # metadata_jsonl
    /\ records' = metadata_jsonl
    /\ UNCHANGED <<FIREWORKS_API_KEY, analysed, loads, pc, i, ground_truths, reference,
                   transcription, results, outcome, requests, responses, caught,
                   escaped, files, printed, textVars, recorderVars>>

NextRecorder ==
    \/ toggle_recording
    \/ toggle_pause
    \/ \E s \in streams : audio_callback_check(s)
    \/ \E s \in streams : audio_callback_append(s)
    \/ \E s \in streams : unreferenced_stream_ends(s)
    \/ discard_recording
    \/ save_recording
    \/ select_sample
    \/ load_audio_devices
    \/ load_metadata

SpecRecorder == InitRecorder /\ [][NextRecorder]_vars

\* ------------------------------------------------- claims on the text functions

\* C8: normalize_text is idempotent: normalising an already normalised string
\* returns it unchanged.
C8_NormalizeIdempotent ==
    phase = "renormalized" => renormalized = normalized

\* C8 witness: a second normalisation has run on the result of a first one
\* that lower-cased, stripped and collapsed something.
C8_Witness ==
    /\ phase = "renormalized"
    /\ normalized # <<>>
    /\ Len(normalized) + 2 <= Len(text)
    /\ \E k \in 1..Len(text) : text[k] \in Uppers

\* No leading, trailing or doubled separator, and no separator but " ".
WhitespaceCollapsed(s) ==
    /\ \A k \in 1..Len(s) : IsSpaceChar(s[k]) => s[k] = " "
    /\ s # <<>> => s[1] # " " /\ s[Len(s)] # " "
    /\ \A k \in 1..(Len(s) - 1) : ~(s[k] = " " /\ s[k + 1] = " ")

\* An apostrophe between two word characters.
WordInternal(s, k) ==
    /\ 1 < k /\ k < Len(s)
    /\ IsWordChar(s[k - 1]) /\ IsWordChar(s[k + 1])

\* C9 (as claimed): the result of normalize_text is lower case and whitespace
\* collapsed, and holds no punctuation except apostrophes that sit between two
\* word characters.
C9_OnlyContractionApostrophes ==
    phase = "normalized" =>
        /\ \A k \in 1..Len(normalized) : normalized[k] \notin Uppers
        /\ WhitespaceCollapsed(normalized)
        /\ \A k \in 1..Len(normalized) :
              /\ normalized[k] \notin Puncts
              /\ normalized[k] = Apostrophe => WordInternal(normalized, k)

\* The outcome is a metrics record with wer = 0 and cer = 0.
ZeroErrorRates(m) ==
    /\ m.ok
    /\ m.value.wer.num = 0
    /\ m.value.cer.num = 0

PairMeasured == phase = "measured" /\ text \in PairTexts /\ hypothesis \in PairTexts

\* Two outcomes of calculate_metrics with the same wer (or the same error).
SameWer(m1, m2) ==
    /\ m1.ok = m2.ok
    /\ m1.ok => m1.value.wer = m2.value.wer
    /\ ~m1.ok => m1.error = m2.error

\* C11: the wer is the same for any two hypotheses with the same normal form
\* (differing in case, stripped punctuation or whitespace runs only), and the
\* same for any two references with the same normal form.  Stated through
\* the normal form itself: the wer of a pair is the wer of the pair with the
\* hypothesis, or the reference, replaced by its normal form, so that all
\* strings of one normal form share one wer.
C11_WerNormalizationInvariant ==
    PairMeasured =>
       /\ SameWer(calculate_metrics(text, normalize_text(hypothesis)), measured)
       /\ SameWer(calculate_metrics(normalize_text(text), hypothesis), measured)

\* C11 witness: a reference and a hypothesis that both change under
\* normalisation have been measured, with a wer above 0.
C11_Witness ==
    /\ PairMeasured
    /\ normalize_text(text) # text
    /\ normalize_text(hypothesis) # hypothesis
    /\ measured.ok
    /\ measured.value.wer.num > 0

\* The positions at which two token sequences of one length differ.
Substituted(rt, ht) == {k \in 1..Len(rt) : rt[k] # ht[k]}

\* C12: when the hypothesis has the reference's N >= 1 tokens but for exactly
\* one substituted token, the wer is 1/N.
C12_OneSubstitution ==
    PairMeasured =>
       LET rt == Split(normalize_text(text))
           ht == Split(normalize_text(hypothesis))
       IN (Len(rt) >= 1 /\ Len(ht) = Len(rt) /\ Cardinality(Substituted(rt, ht)) = 1)
          => /\ measured.ok
             /\ measured.value.wer.num = 1
             /\ measured.value.wer.den = Len(rt)

\* C12 witness: a reference of two tokens has been measured against a
\* hypothesis whose second token is another one.
C12_Witness ==
    /\ PairMeasured
    /\ Len(Split(normalize_text(text))) = 2
    /\ Len(Split(normalize_text(hypothesis))) = 2
    /\ Substituted(Split(normalize_text(text)), Split(normalize_text(hypothesis))) = {2}

\* C13 (as claimed): calculate_metrics returns a metrics record and raises
\* nothing for every pair of strings.
C13_MetricsTotal ==
    phase = "measured" => measured.ok

Min3(a, b, c) == Min2(a, Min2(b, c))

\* The least number of unit-cost substitutions, insertions and deletions that
\* turn a into b, by the recursion on the sequences' heads.
RECURSIVE MinEdits(_, _)
MinEdits(a, b) ==
    IF a = <<>> THEN Len(b)
    ELSE IF b = <<>> THEN Len(a)
    ELSE Min3(MinEdits(Tail(a), Tail(b)) + (IF Head(a) = Head(b) THEN 0 ELSE 1),
              MinEdits(Tail(a), b) + 1,
              MinEdits(a, Tail(b)) + 1)

\* C20: the wer calculate_metrics returns is the least number of word
\* substitutions, insertions and deletions from the normalised reference
\* tokens to the normalised hypothesis tokens, over the number of reference
\* tokens.
C20_WerIsMinEditsOverReference ==
    (PairMeasured /\ measured.ok) =>
       /\ measured.value.wer.num =
             MinEdits(Split(normalize_text(text)), Split(normalize_text(hypothesis)))
       /\ measured.value.wer.den = Len(Split(normalize_text(text)))
       /\ measured.value.wer.den >= 1
       /\ measured.value.wer.num >= 0

\* C20 witness: a measured pair whose edits outnumber the reference tokens,
\* a wer above 1.
C20_Witness ==
    /\ PairMeasured
    /\ measured.ok
    /\ measured.value.wer.num > measured.value.wer.den
    /\ normalize_text(hypothesis) # hypothesis

\* ------------------------------------------------------- claims on the batch

\* The iteration of record k has run to its end (continue, or append).
Finished(k) == k < i \/ (k = i /\ pc \in {"loop", "save", "done"})

\* The positions of the results emitted for record k.
ResultsFor(k) == {j \in 1..Len(results) : results[j].id = k}

\* A transcription request was sent for record k.
Requested(k) == \E j \in 1..Len(requests) : requests[j] = k

\* The loop caught an error for record k.
CaughtFor(k) == {j \in 1..Len(caught) : caught[j].id = k}

MissingAudio == {k \in 1..Len(records) : ~records[k].audio_exists}

\* C1: a record whose audio file is missing is skipped: no result, no
\* transcription request and no exception come of it; with exactly one such
\* record and all others scored, there is one result fewer than records.
C1_MissingAudioSkipped ==
    /\ \A k \in MissingAudio :
          k <= i =>
             /\ outcome[k] = "SKIPPED"
             /\ ResultsFor(k) = {}
             /\ ~Requested(k)
             /\ CaughtFor(k) = {}
             /\ ~(i = k /\ pc = "aborted")
    /\ ( /\ pc \in {"save", "done"}
         /\ Cardinality(MissingAudio) = 1
         /\ \A k \in 1..Len(records) : k \notin MissingAudio => outcome[k] = "SCORED" )
       => Len(results) = Len(records) - 1

\* C1 witness: the run has ended, the first record's audio was missing and the
\* record after it was scored.
C1_Witness ==
    /\ pc = "done"
    /\ Len(records) = 2
    /\ MissingAudio = {1}
    /\ outcome[1] = "SKIPPED"
    /\ outcome[2] = "SCORED"
    /\ Len(results) = 1

\* C2 (as claimed): no failure is fatal to the batch: no exception leaves
\* run_evaluation, and once the loop has ended every record is SKIPPED or
\* SCORED.
C2_FailuresNeverFatal ==
    /\ escaped = "none"
    /\ pc # "aborted"
    /\ pc \in {"save", "done"} =>
          \A k \in 1..Len(records) : outcome[k] \in {"SKIPPED", "SCORED"}

\* The request for record k came back and failed: the request raised, or the
\* response status is not a success status.
RequestFailed(k) ==
    \/ responses[k].kind = "exception"
    \/ responses[k].kind = "response" /\ responses[k].status_code \notin 200..299

\* A failed record emits nothing and the loop goes on after it.
SkippedAndContinued(k) ==
    /\ outcome[k] = "SKIPPED"
    /\ ResultsFor(k) = {}
    /\ Cardinality(CaughtFor(k)) = 1
    /\ i = k => pc \in {"loop", "save", "done"}

\* C3 (as claimed): when the request fails, by a non-success status or by an
\* exception of the request, the error surfaced carries the status code and
\* the response body, the record emits no result and the loop goes on.
C3_FailureSkipsRecord_Original ==
    \A k \in 1..Len(records) :
       RequestFailed(k) =>
          /\ SkippedAndContinued(k)
          /\ \A j \in CaughtFor(k) :
                /\ caught[j].error.has_status
                /\ caught[j].error.status_code = responses[k].status_code
                /\ caught[j].error.body = responses[k].raw

\* C3 (amended): a non-success status surfaces an error carrying the status
\* code and the response body; an exception of the request is surfaced as it
\* is, with no status code; either way the record emits no result and the
\* loop goes on.
C3_FailureSkipsRecord ==
    \A k \in 1..Len(records) :
       RequestFailed(k) =>
          /\ SkippedAndContinued(k)
          /\ \A j \in CaughtFor(k) :
                IF responses[k].kind = "response"
                THEN /\ caught[j].error.has_status
                     /\ caught[j].error.status_code = responses[k].status_code
                     /\ caught[j].error.body = responses[k].raw
                ELSE /\ ~caught[j].error.has_status
                     /\ caught[j].error.type = responses[k].raw

\* C3 witness: the first record's request came back with status 500 and the
\* second record was scored after it.
C3_Witness ==
    /\ Len(records) = 2
    /\ responses[1].kind = "response"
    /\ responses[1].status_code = 500
    /\ outcome[1] = "SKIPPED"
    /\ outcome[2] = "SCORED"

\* C4: records are processed in file order and the results are an
\* order-preserving subsequence of the metadata records.
C4_ResultsInMetadataOrder ==
    /\ \A a, b \in 1..Len(results) : a < b => results[a].id < results[b].id
    /\ \A j \in 1..Len(results) :
          /\ results[j].id \in 1..i
          /\ results[j].sample_file = records[results[j].id].sample_file
          /\ results[j].annotations = records[results[j].id].annotations
    /\ \A a, b \in 1..Len(requests) : a < b => requests[a] < requests[b]
    /\ \A k \in 1..Len(records) :
          k > i => outcome[k] = "PENDING" /\ responses[k].kind = "none"

\* C4 witness: two results have been emitted.
C4_Witness ==
    /\ Len(results) = 2
    /\ results[1].id = 1
    /\ results[2].id = 2

\* The text a 200 response yields: result.get("text", "").
TextOf(resp) == IF resp.json.has_text THEN resp.json.text ELSE <<>>

\* C5: at every point of the run the results list holds exactly one complete
\* result for each record whose iteration ended with audio present, the
\* request accepted and the metrics computed, and nothing for any other.
C5_ResultOnlyAfterFullSuccess ==
    \A k \in 1..Len(records) :
       LET full == /\ Finished(k)
                   /\ records[k].audio_exists
                   /\ responses[k].kind = "response"
                   /\ responses[k].status_code = HTTP_OK
       IN /\ Cardinality(ResultsFor(k)) = IF full THEN 1 ELSE 0
          /\ \A j \in ResultsFor(k) :
                /\ results[j].transcription = TextOf(responses[k])
                /\ results[j].reference = SampleText(records[k].sample_file)
                /\ calculate_metrics(results[j].reference, results[j].transcription).ok
                /\ results[j].metrics =
                      calculate_metrics(results[j].reference, results[j].transcription).value

\* C5 witness: one record was scored and the metrics of the next one raised,
\* leaving the list with the one result.
C5_Witness ==
    /\ pc = "aborted"
    /\ escaped = "ValueError"
    /\ i = 2
    /\ Len(results) = 1
    /\ responses[2].kind = "response"
    /\ responses[2].status_code = HTTP_OK

FilesNamed(prefix) == {f \in files : f.prefix = prefix}

RECURSIVE SumCounts(_, _)
SumCounts(stats, groups) ==
    IF groups = {} THEN 0
    ELSE LET g == CHOOSE h \in groups : TRUE
         IN stats[g].count + SumCounts(stats, groups \ {g})

\* The results whose annotation key (or "unknown") is g.
InGroup(key, g) ==
    {j \in 1..Len(results) : DictGet(results[j].annotations, key, "unknown") = g}

\* The per-group counts of one dimension partition the results.
CountsPartition(stats, key, total) ==
    /\ SumCounts(stats, DOMAIN stats) = total
    /\ DOMAIN stats =
          {DictGet(results[j].annotations, key, "unknown") : j \in 1..Len(results)}
    /\ \A g \in DOMAIN stats : stats[g].count = Cardinality(InGroup(key, g))

\* C7: in the summary, the counts of by_pace and the counts of by_background
\* each sum to total_recordings, every result being counted in exactly one
\* group per dimension ("unknown" when the annotation is absent).
C7_GroupCountsSumToTotal ==
    \A f \in FilesNamed("summary") :
       /\ f.content.total_recordings = Len(results)
       /\ CountsPartition(f.content.by_pace, "pace", f.content.total_recordings)
       /\ CountsPartition(f.content.by_background, "background_noise",
                          f.content.total_recordings)

\* C7 witness: a summary of two results, one annotated and one with no
\* annotation, so that each dimension has a named group and "unknown".
C7_Witness ==
    \E f \in FilesNamed("summary") :
       /\ f.content.total_recordings = 2
       /\ DOMAIN f.content.by_pace = {"fast", "unknown"}
       /\ Cardinality(DOMAIN f.content.by_background) = 2

\* The calls of load_ground_truth for sample file f.
LoadsOf(f) == {n \in 1..Len(loads) : loads[n] = f}

\* C14: within a run load_ground_truth is called at most once for each sample
\* file, a cached text is the text its one load returned, and every result
\* carries the cached text of its sample file as its reference.
C14_GroundTruthLoadedOnce ==
    /\ \A f \in SamplesOnDisk \cup {MissingSample} : Cardinality(LoadsOf(f)) <= 1
    /\ \A f \in DOMAIN ground_truths :
          /\ Cardinality(LoadsOf(f)) = 1
          /\ ground_truths[f] = SampleText(f)
    /\ \A j \in 1..Len(results) :
          /\ results[j].sample_file \in DOMAIN ground_truths
          /\ results[j].reference = ground_truths[results[j].sample_file]

\* C14 witness: two results share a sample file that was loaded once, after
\* the second record found it in the cache.
C14_Witness ==
    /\ Len(results) = 2
    /\ results[1].sample_file = results[2].sample_file
    /\ Cardinality(LoadsOf(results[1].sample_file)) = 1
    /\ loads = <<METADATA_FILE, results[1].sample_file>>

\* C15: with no FIREWORKS_API_KEY in the environment the evaluator aborts at
\* startup before any work: no metadata is loaded, no ground truth is read,
\* no transcription request is sent and no file is written.
C15_NoKeyNoWork ==
    FIREWORKS_API_KEY = Absent =>
       /\ pc \in {"start", "fatal"}
       /\ loads = <<>>
       /\ records = <<>>
       /\ requests = <<>>
       /\ results = <<>>
       /\ files = {}
       /\ printed = <<>>

\* C15 witness: the startup check has run without a key and aborted.
C15_Witness ==
    /\ FIREWORKS_API_KEY = Absent
    /\ pc = "fatal"

\* The requests sent for record k.
RequestsFor(k) == {j \in 1..Len(requests) : requests[j] = k}

\* The requests sent that have not come back.
Outstanding == {k \in 1..Len(records) : Requested(k) /\ responses[k].kind = "none"}

\* C21: at most one transcription request is sent per record, none for a
\* record whose audio file is missing and none again after a failure; at
\* most one request is outstanding; and a request is sent for a record only
\* after every record before it has reached SKIPPED or SCORED.
C21_OneRequestAtATime ==
    /\ \A k \in 1..Len(records) :
          /\ Cardinality(RequestsFor(k)) <= 1
          /\ k \in MissingAudio => RequestsFor(k) = {}
          /\ Requested(k) =>
                \A j \in 1..(k - 1) : outcome[j] \in {"SKIPPED", "SCORED"}
    /\ Cardinality(Outstanding) <= 1
    /\ Len(requests) <= Len(records)

\* C21 witness: the first record's request failed and was not sent again;
\* the second record's request is the one outstanding.
C21_Witness ==
    /\ Len(records) = 2
    /\ RequestFailed(1)
    /\ requests = <<1, 2>>
    /\ Outstanding = {2}

\* C27: a record is scored only when its response has status 200 exactly;
\* a response with any other status, another 2xx included, is raised by
\* transcribe_audio as an error carrying that status, and the record is
\* skipped with no result.
C27_OnlyStatus200Scored ==
    \A k \in 1..Len(records) :
       /\ outcome[k] = "SCORED" =>
             /\ responses[k].kind = "response"
             /\ responses[k].status_code = 200
       /\ (responses[k].kind = "response" /\ responses[k].status_code # 200) =>
             /\ outcome[k] = "SKIPPED"
             /\ ResultsFor(k) = {}
             /\ \E j \in CaughtFor(k) : caught[j].error.status_code = responses[k].status_code

\* C27 witness: the first record's request came back with status 201 and
\* the record was skipped; the second came back with 200 and was scored.
C27_Witness ==
    /\ Len(records) = 2
    /\ responses[1].kind = "response"
    /\ responses[1].status_code = 201
    /\ outcome[1] = "SKIPPED"
    /\ responses[2].status_code = 200
    /\ outcome[2] = "SCORED"

\* The iteration of record k is over, by its end or by an exception.
Ended(k) == Finished(k) \/ (k = i /\ pc = "aborted")

\* C28 (as claimed): a record whose request came back with status 200 and a
\* body without a text field is scored and appended as an empty
\* transcription: hypothesis_words is 0 and, the reference not being empty,
\* the wer is 1.
C28_MissingTextScoredAsEmpty ==
    \A k \in 1..Len(records) :
       (/\ Ended(k)
        /\ responses[k].kind = "response"
        /\ responses[k].status_code = HTTP_OK
        /\ ~responses[k].json.has_text) =>
          /\ outcome[k] = "SCORED"
          /\ Cardinality(ResultsFor(k)) = 1
          /\ \A j \in ResultsFor(k) :
                /\ results[j].transcription = <<>>
                /\ results[j].metrics.hypothesis_words = 0
                /\ results[j].reference # <<>> =>
                      results[j].metrics.wer.num = results[j].metrics.wer.den

\* C22 (as claimed): for the results of any run the analysis scripts obtain
\* a WPM for every result, with no error: the reference word count divided by
\* duration_seconds, times 60.
C22_WpmDerived ==
    \A n \in 1..Len(analysed) :
       /\ analysed[n].ok
       /\ Len(analysed[n].value) = Len(results)
       /\ \A j \in 1..Len(results) :
             /\ results[j].duration_seconds > 0
             /\ analysed[n].value[j].num = results[j].metrics.reference_words * 60
             /\ analysed[n].value[j].den = results[j].duration_seconds

\* ----------------------------------------------------- claims on the recorder

\* A step from one state of the recorder's state machine to another.
Moved(from, to) == RecorderState = from /\ RecorderState' = to

\* C16 (as claimed): is_recording and is_paused are never both true, and the
\* handlers take only the transitions IDLE -> RECORDING (record button),
\* RECORDING -> PAUSED and PAUSED -> RECORDING (pause button, the same take),
\* RECORDING -> STOPPED and PAUSED -> STOPPED (record button), STOPPED -> IDLE
\* (Save or Discard).  A record button that finds nothing to start stays in
\* IDLE, and a take stopped with no audio, which has nothing to save or
\* discard, may go to IDLE at once.
C16_RecorderStateMachine ==
    [][/\ ~(is_recording' /\ is_paused')
       /\ toggle_recording =>
             \/ Moved("IDLE", "IDLE")
             \/ Moved("IDLE", "RECORDING")
             \/ Moved("RECORDING", "STOPPED")
             \/ Moved("PAUSED", "STOPPED")
             \/ /\ audio_data = <<>>
                /\ Moved("RECORDING", "IDLE") \/ Moved("PAUSED", "IDLE")
       /\ toggle_pause =>
             /\ Moved("RECORDING", "PAUSED") \/ Moved("PAUSED", "RECORDING")
             /\ UNCHANGED <<stream, audio_data>>
       /\ (save_recording \/ discard_recording) => Moved("STOPPED", "IDLE")
       /\ (\E s \in streams : audio_callback_check(s) \/ audio_callback_append(s)
                                 \/ unreferenced_stream_ends(s))
             => RecorderState' = RecorderState
      ]_vars

\* C17 (as claimed): every buffer in audio_data was appended while capture
\* was active (is_recording and not is_paused), none while PAUSED, STOPPED or
\* IDLE.
C17_AppendOnlyWhileActive ==
    \A n \in 1..Len(audio_data) : audio_data[n].appended_in = "RECORDING"

\* C18 (as claimed): the metadata lines have distinct ids, and the audio path
\* of every line holds the audio captured for that recording.
C18_OwnWaveFile ==
    /\ \A j, k \in 1..Len(metadata_jsonl) :
          j # k => metadata_jsonl[j].id # metadata_jsonl[k].id
    /\ wav_files[EarlierLine.audio] = EarlierAudio
    /\ \A k \in 1..Len(saves) : wav_files[saves[k].line.audio] = saves[k].audio

\* The lines the save_recording calls so far have built, in call order.
SavedLines == [k \in 1..Len(saves) |-> saves[k].line]

\* C19: the metadata file is the file as it was at launch followed by one
\* line for each save_recording call, in call order: a save appends exactly
\* one line and changes no earlier one, and nothing else (start, pause,
\* resume, stop, discard, the callback, the evaluator's load_metadata) writes.
C19_MetadataAppendOnly ==
    metadata_jsonl = <<EarlierLine>> \o SavedLines

\* C19 witness: two takes were saved, a third one being recorded or not, and
\* the evaluator has read the file since.
C19_Witness ==
    /\ Len(saves) = 2
    /\ records = metadata_jsonl
    /\ Len(metadata_jsonl) = 3

\* a is an initial part of b.
IsPrefix(a, b) == Len(a) <= Len(b) /\ SubSeq(b, 1, Len(a)) = a

\* C23 (as claimed): from the start of a take to the Save or Discard that
\* ends it no buffer appended to audio_data is removed: outside IDLE only
\* save_recording and discard_recording take buffers away.
C23_NoBufferRemoved ==
    [][(RecorderState # "IDLE" /\ ~IsPrefix(audio_data, audio_data'))
          => (save_recording \/ discard_recording)]_vars

\* The input streams that were opened and not closed: the running ones and
\* the one self.stream refers to.
OpenStreams == streams \cup (IF stream = NoStream THEN {} ELSE {stream})

\* C24 (as claimed): at most one input stream is open at any time, and none
\* while the recorder is IDLE or STOPPED.
C24_OneStreamOpen ==
    /\ Cardinality(OpenStreams) <= 1
    /\ RecorderState \in {"IDLE", "STOPPED"} => OpenStreams = {}

SampleOfTheTake ==
    /\ \A k \in 1..Len(saves) : saves[k].line.sample_file = saves[k].started_sample
    /\ RecorderState # "IDLE" =>
          /\ ~selectors_enabled
          /\ sample_path = started_sample
          /\ ~ENABLED select_sample

\* C26 (as claimed): the sample a metadata line records is the one that was
\* selected when the recording started, and from start_recording until the
\* user interface is reset the selection, of the sample and of the
\* microphone, does not change.
C26_SelectionOfTheTake ==
    /\ []SampleOfTheTake
    /\ [][RecorderState # "IDLE" =>
            (sample_path' = sample_path /\ device_idx' = device_idx)]_vars

\* C29: when the input stream could not be opened or started the recorder is
\* IDLE: is_recording, is_paused and has_unsaved_recording are false, the
\* record button is enabled, Pause, Save and Discard are hidden and the
\* selectors enabled, and the record button starts a recording again.
C29_FailedStartIsIdle ==
    last_handler = "start_failed" =>
       /\ ~is_recording /\ ~is_paused /\ ~has_unsaved_recording
       /\ RecorderState = "IDLE"
       /\ record_btn_enabled
       /\ ~pause_btn_visible /\ ~save_btn_visible /\ ~discard_btn_visible
       /\ selectors_enabled
       /\ sessions < MaxSessions => ENABLED toggle_recording

\* C29 witness: a second start_recording failed to get its stream running
\* after a first take had been saved.
C29_Witness ==
    /\ last_handler = "start_failed"
    /\ sessions = 2
    /\ Len(saves) = 1
    /\ stream # NoStream

====
